---- MODULE Spec2Model ----
(***************************************************************************)
(* JochiesLeague backend (src/backend/app.py, src/backend/models.py):      *)
(* the location-gated daily check-in ledger.  Requests are handled by      *)
(* concurrent workers over one database; the checkins table carries the    *)
(* unique_user_date constraint of models.py.                               *)
(***************************************************************************)
EXTENDS Integers, Sequences, FiniteSets, TLC

(***************************************************************************)
(* Floating point.  Python floats are modelled as binary floating point    *)
(* numbers <<m, e>> of value m * 2^e with a 26-bit significand             *)
(* (2^25 <= |m| < 2^26, or <<0, 0>>), rounded to nearest, ties to even.    *)
(* All intermediate integers stay below 2^31.                              *)
(***************************************************************************)
TwoP == 2^26

HalfP == 2^25

FZero == <<0, 0>>

Abs(n) == IF n < 0 THEN -n ELSE n

Sgn(n) == IF n < 0 THEN -1 ELSE 1

\* number of bits of n (0 <= n < 2^31)
BitLen(n) ==
    IF n = 0 THEN 0
    ELSE CHOOSE k \in 1..31 : 2^(k - 1) <= n /\ (k = 31 \/ n < 2^k)

\* M / 2^k rounded to nearest, ties to even; sticky: nonzero bits lie below M
RoundShift(M, k, sticky) ==
    IF k = 0 THEN M
    ELSE LET d == 2^k
             q == M \div d
             r == M % d
             h == d \div 2
         IN  IF r > h \/ (r = h /\ (sticky \/ q % 2 = 1)) THEN q + 1 ELSE q

\* the float nearest to s * M * 2^e  (s in {1,-1}, 0 <= M < 2^31)
FNorm(s, M, e, sticky) ==
    IF M = 0 THEN FZero
    ELSE LET n == BitLen(M)
         IN  IF n <= 26
             THEN <<s * M * 2^(26 - n), e - (26 - n)>>
             ELSE LET q == RoundShift(M, n - 26, sticky)
                  IN  IF q = TwoP THEN <<s * HalfP, e + (n - 26) + 1>>
                                  ELSE <<s * q, e + (n - 26)>>

FInt(n) == FNorm(Sgn(n), Abs(n), 0, FALSE)

FNeg(a) == <<-a[1], a[2]>>

\* a * b : the 52-bit product of the significands is formed in 13-bit limbs
FMul(a, b) ==
    IF a[1] = 0 \/ b[1] = 0 THEN FZero
    ELSE LET x == Abs(a[1])
             y == Abs(b[1])
             K == 2^13
             x1 == x \div K
             x0 == x % K
             y1 == y \div K
             y0 == y % K
             H == x1 * y1
             Mid == x1 * y0 + x0 * y1
             L == x0 * y0
             M1 == Mid \div 2^12
             M0 == Mid % 2^12
             rest == M0 * K + L
             Q == 2 * H + M1 + rest \div HalfP
             rem == rest % HalfP
         IN  FNorm(Sgn(a[1]) * Sgn(b[1]), Q, a[2] + b[2] + 25, rem # 0)

\* <<quotient, remainder>> of a * 2^k by b (b < 2^26), five bits at a time
RECURSIVE LongDiv(_, _, _)
LongDiv(a, b, k) ==
    IF k = 0 THEN <<a \div b, a % b>>
    ELSE LET s == IF k >= 5 THEN 5 ELSE k
             p == LongDiv(a, b, k - s)
         IN  <<p[1] * 2^s + (p[2] * 2^s) \div b, (p[2] * 2^s) % b>>

FDiv(a, b) ==
    IF a[1] = 0 THEN FZero
    ELSE LET p == LongDiv(Abs(a[1]), Abs(b[1]), 27)
         IN  FNorm(Sgn(a[1]) * Sgn(b[1]), p[1], a[2] - b[2] - 27, p[2] # 0)

\* a + b with three guard bits; bits shifted out are folded into the last one
FAdd(a, b) ==
    IF a[1] = 0 THEN b
    ELSE IF b[1] = 0 THEN a
    ELSE LET hi == IF a[2] < b[2] THEN b ELSE a
             lo == IF a[2] < b[2] THEN a ELSE b
             d == hi[2] - lo[2]
         IN  IF d > 28 THEN hi
             ELSE IF d <= 3
             THEN LET s == hi[1] * 2^d + lo[1]
                  IN  FNorm(Sgn(s), Abs(s), lo[2], FALSE)
             ELSE LET sh == d - 3
                      Bq == Abs(lo[1]) \div 2^sh
                      Br == Abs(lo[1]) % 2^sh
                      Bm == IF Br # 0 /\ Bq % 2 = 0 THEN Bq + 1 ELSE Bq
                      s == hi[1] * 8 + Sgn(lo[1]) * Bm
                  IN  FNorm(Sgn(s), Abs(s), hi[2] - 3, FALSE)

FSub(a, b) == FAdd(a, FNeg(b))

FGt(a, b) == FSub(a, b)[1] > 0

FHalf(a) == IF a[1] = 0 THEN FZero ELSE <<a[1], a[2] - 1>>

FDouble(a) == IF a[1] = 0 THEN FZero ELSE <<a[1], a[2] + 1>>

FOne == FInt(1)

\* sign of s^2 - T * 2^26
SqCmp(s, T) ==
    LET K == 2^13
        s1 == s \div K
        s0 == s % K
        mid == 2 * s1 * s0
        low0 == (mid % K) * K + s0 * s0
        top == s1 * s1 + mid \div K + low0 \div TwoP
        low == low0 % TwoP
    IN  IF top < T THEN -1 ELSE IF top = T /\ low = 0 THEN 0 ELSE 1

\* the largest s in lo .. lo + 2^w - 1 with s^2 <= T * 2^26 (lo is one such s),
\* five bits at a time
RECURSIVE ISqrt(_, _, _)
ISqrt(T, lo, w) ==
    IF w = 0 THEN lo
    ELSE LET s == IF w >= 5 THEN 5 ELSE w
             step == 2^(w - s)
             fit == {i \in 0..(2^s - 1) : SqCmp(lo + i * step, T) <= 0}
         IN  ISqrt(T, lo + (Cardinality(fit) - 1) * step, w - s)

\* math.sqrt (a >= 0)
FSqrt(a) ==
    IF a[1] = 0 THEN FZero
    ELSE IF (a[2] - 26) % 2 = 0
    THEN LET s == ISqrt(a[1], HalfP, 25)
         IN  FNorm(1, s, (a[2] - 26) \div 2, SqCmp(s, a[1]) # 0)
    ELSE LET T == a[1] \div 2
             s == ISqrt(T, HalfP, 25)
         IN  FNorm(1, s, (a[2] - 25) \div 2, a[1] % 2 = 1 \/ SqCmp(s, T) # 0)

\* Power series in x2 = x^2, st = <<k, term, acc>>: the term after `term` is
\* -term * x2 / ((k+1)(k+2)); summed up to the term of degree `last`.
RECURSIVE Taylor(_, _, _)
Taylor(st, x2, last) ==
    IF st[1] >= last THEN st[3]
    ELSE LET nt == FNeg(FDiv(FMul(st[2], x2), FInt((st[1] + 1) * (st[1] + 2))))
         IN  Taylor(<<st[1] + 2, nt, FAdd(st[3], nt)>>, x2, last)

\* math.sin, math.cos for |x| <= pi
FSin(x) == Taylor(<<1, x, x>>, FMul(x, x), 25)

FCos(x) == Taylor(<<0, FOne, FOne>>, FMul(x, x), 24)

FPi == FDiv(FInt(314159265), FInt(100000000))

\* t - t^3/3 + t^5/5 - ..., st = <<k, power, acc>>, up to degree `last`
RECURSIVE AtanSeries(_, _, _)
AtanSeries(st, t2, last) ==
    IF st[1] >= last THEN st[3]
    ELSE LET npw == FNeg(FMul(st[2], t2))
         IN  AtanSeries(<<st[1] + 2, npw, FAdd(st[3], FDiv(npw, FInt(st[1] + 2)))>>,
                        t2, last)

\* atan(t) = 2 atan(t / (1 + sqrt(1 + t^2))), applied st[1] times to st[2]
RECURSIVE AtanReduce(_)
AtanReduce(st) ==
    IF st[1] = 0 THEN st[2]
    ELSE AtanReduce(<<st[1] - 1,
                      FDiv(st[2], FAdd(FOne, FSqrt(FAdd(FOne, FMul(st[2], st[2])))))>>)

\* atan(t) for 0 <= t <= 1
FAtan(t) ==
    LET r == AtanReduce(<<3, t>>)
        s == AtanSeries(<<1, r, r>>, FMul(r, r), 17)
    IN  IF s[1] = 0 THEN FZero ELSE <<s[1], s[2] + 3>>

\* math.atan2(y, x) for y >= 0, x >= 0, not both zero
FAtan2(y, x) ==
    IF y[1] = 0 THEN FZero
    ELSE IF x[1] = 0 THEN FHalf(FPi)
    ELSE IF ~FGt(y, x) THEN FAtan(FDiv(y, x))
    ELSE FSub(FHalf(FPi), FAtan(FDiv(x, y)))

\* math.radians
FRadians(x) == FMul(x, FDiv(FPi, FInt(180)))

\* round(x, 1) for x >= 0, as a number of tenths (ties to even)
Round1(a) ==
    IF a[1] = 0 THEN 0
    ELSE IF a[2] >= 0 THEN a[1] * 2^a[2] * 10
    ELSE IF -a[2] > 30 THEN 0
    ELSE LET d == 2^(-a[2])
         IN  IF -a[2] <= 26
             THEN LET t == (a[1] % d) * 10
                      q == t \div d
                      r == t % d
                      up == IF 2 * r > d \/ (2 * r = d /\ q % 2 = 1) THEN 1 ELSE 0
                  IN  (a[1] \div d) * 10 + q + up
             ELSE LET t == a[1] * 10
                      q == t \div d
                      r == t % d
                      h == d \div 2
                  IN  IF r > h \/ (r = h /\ q % 2 = 1) THEN q + 1 ELSE q

\* a JSON number given in microdegrees, as the float the parser yields
Deg(n) == FDiv(FInt(n), FInt(1000000))

(***************************************************************************)
(* Configuration (app.py 17-23)                                            *)
(***************************************************************************)
SCIENCE_PARK_LAT == Deg(52354700)

SCIENCE_PARK_LNG == Deg(4954300)

ALLOWED_RADIUS_METERS == 10000

\* Earth's radius in meters (haversine_distance's local R)
R == 6371000

\* mutant: the cosine of the first latitude taken twice
haversine_first_latitude(lat1, lon1, lat2, lon2) ==
    LET phi1 == FRadians(lat1)
        delta_phi == FRadians(FSub(lat2, lat1))
        delta_lambda == FRadians(FSub(lon2, lon1))
        sp == FSin(FHalf(delta_phi))
        sl == FSin(FHalf(delta_lambda))
        a == FAdd(FMul(sp, sp), FMul(FMul(FCos(phi1), FCos(phi1)), FMul(sl, sl)))
        c == FDouble(FAtan2(FSqrt(a), FSqrt(FSub(FOne, a))))
    IN  FMul(FInt(R), c)

haversine_distance(lat1, lon1, lat2, lon2) ==
    LET phi1 == FRadians(lat1)
        phi2 == FRadians(lat2)
        delta_phi == FRadians(FSub(lat2, lat1))
        delta_lambda == FRadians(FSub(lon2, lon1))
        sp == FSin(FHalf(delta_phi))
        sl == FSin(FHalf(delta_lambda))
        a == FAdd(FMul(sp, sp), FMul(FMul(FCos(phi1), FCos(phi2)), FMul(sl, sl)))
        c == FDouble(FAtan2(FSqrt(a), FSqrt(FSub(FOne, a))))
    IN  FMul(FInt(R), c)

(***************************************************************************)
(* Bounds of the model                                                     *)
(***************************************************************************)
\* concurrent request workers
NumWorkers == 2

\* clock ticks per calendar day
TicksPerDay == 2

\* the clock runs from 0 to MaxTime
MaxTime == 2

Workers == 1..NumWorkers

\* Python's None
None == "None"

\* Google ids of the rows of the users table
UserIds == {"u1", "u2"}

\* sample coordinates in microdegrees: the reference point, a point at
\* exactly the allowed radius, one just beyond it, one far away
RefPoint == <<52354700, 4954300>>

EdgePoint == <<52438929, 5005952>>

BeyondPoint == <<52444608, 4957741>>

FarPoint == <<52000000, 4000000>>

Points == {RefPoint, EdgePoint, BeyondPoint, FarPoint}

\* photo payloads of a request: absent, empty, a base64 image
Photos == {None, "", "img1"}

\* request bodies (request.get_json()): keys is the set of keys present
NoBody == [keys |-> {}, latitude |-> FZero, longitude |-> FZero, photo |-> None]

Body(pt, ph) ==
    [keys |-> {"latitude", "longitude"} \cup (IF ph = None THEN {} ELSE {"photo"}),
     latitude |-> Deg(pt[1]), longitude |-> Deg(pt[2]), photo |-> ph]

Bodies ==
    {NoBody,
     [keys |-> {"latitude"}, latitude |-> SCIENCE_PARK_LAT, longitude |-> FZero,
      photo |-> None]}
    \cup {Body(pt, ph) : pt \in Points, ph \in Photos}

\* the bodies of the requests that race for the ledger
LedgerBodies ==
    {Body(EdgePoint, "img1"), Body(EdgePoint, None), Body(FarPoint, "img1")}

\* credentials of a request: the session cookie's user and the Bearer token
Credentials ==
    {[session_user |-> u, bearer |-> None] : u \in UserIds \cup {None}}
    \cup {[session_user |-> None, bearer |-> "tok1"]}

VARIABLES
    checkins,     \* the checkins table: the set of its rows
    users,        \* the users table: id -> [name, picture]
    auth_tokens,  \* token -> [user_id, expires]
    now,          \* the UTC clock, in ticks
    tz,           \* the server's local time offset, in ticks
    req,          \* per worker: the checkin request it is handling
    resp,         \* the response returned by the latest step, if any
    verified,     \* history: the users whose verify-location has succeeded
    distances,    \* memo: haversine_distance, tabulated by its arguments
    issued        \* history: token -> [user_id, at], every token ever issued

vars ==
    <<checkins, users, auth_tokens, now, tz, req, resp, verified, distances,
      issued>>

(***************************************************************************)
(* Clock                                                                   *)
(***************************************************************************)
\* datetime.utcnow()
utcnow == now

\* date.today(): the local calendar date
date_today == (now + tz) \div TicksPerDay

\* datetime.isoformat(): <<date, time of day>>
isoformat(t) == <<t \div TicksPerDay, t % TicksPerDay>>

(***************************************************************************)
(* Authentication (app.py 88-109)                                          *)
(***************************************************************************)
\* mutant: a token still authenticates at the instant it expires
get_user_from_token_at_expiry(bearer) ==
    IF bearer # None /\ bearer \in DOMAIN auth_tokens
       /\ auth_tokens[bearer].expires >= utcnow
       /\ auth_tokens[bearer].user_id \in DOMAIN users
    THEN auth_tokens[bearer].user_id
    ELSE None

get_user_from_token(bearer) ==
    IF bearer # None /\ bearer \in DOMAIN auth_tokens
       /\ auth_tokens[bearer].expires > utcnow
       /\ auth_tokens[bearer].user_id \in DOMAIN users
    THEN auth_tokens[bearer].user_id
    ELSE None

\* the user api_login_required resolves: session first, then the token
\* mutant: the token is tried first, then the session
api_login_required_token_first(cred) ==
    IF get_user_from_token(cred.bearer) # None
    THEN get_user_from_token(cred.bearer)
    ELSE IF cred.session_user # None /\ cred.session_user \in DOMAIN users
    THEN cred.session_user
    ELSE None

api_login_required(cred) ==
    IF cred.session_user # None /\ cred.session_user \in DOMAIN users
    THEN cred.session_user
    ELSE get_user_from_token(cred.bearer)

(***************************************************************************)
(* The checkins table (models.py 18-33)                                    *)
(***************************************************************************)
\* CheckIn.query.filter_by(user_id=..., check_in_date=...).first()
filter_by_user_date(table, user_id, day) ==
    {r \in table : r.user_id = user_id /\ r.check_in_date = day}

\* mutant: the table without its unique constraint
no_unique_constraint(table, row) == TRUE

\* UniqueConstraint('user_id', 'check_in_date', name='unique_user_date')
unique_user_date(table, row) ==
    \A r \in table :
        ~(r.user_id = row.user_id /\ r.check_in_date = row.check_in_date)

\* mutant: the commit replaces the user's earlier rows
db_upsert(table, row) == {r \in table : r.user_id # row.user_id} \cup {row}

\* db.session.add(row); db.session.commit(): the table after a commit that
\* the constraint accepts
db_insert(table, row) == table \cup {row}

(***************************************************************************)
(* Responses: jsonify(body), status                                        *)
(***************************************************************************)
NoResp == [op |-> "none"]

\* the `today` of a response that returned before date.today() was read
NoDate == 0 - 1

Response(op, user, data, today, status, body) ==
    [op |-> op, user |-> user, data |-> data, today |-> today,
     status |-> status, body |-> body]

missing_coordinates(data) ==
    data.keys = {} \/ "latitude" \notin data.keys \/ "longitude" \notin data.keys

\* not data.get('photo')
missing_photo(data) ==
    "photo" \notin data.keys \/ data.photo = None \/ data.photo = ""

\* haversine_distance(lat, lng, SCIENCE_PARK_LAT, SCIENCE_PARK_LNG) for every
\* coordinate pair a request body can carry.  The function is pure: it is
\* tabulated once, by its four arguments, in the initial state, and the
\* handlers look their result up.
DistanceTable ==
    [c \in {<<d.latitude, d.longitude, SCIENCE_PARK_LAT, SCIENCE_PARK_LNG>> :
                d \in Bodies} |->
        haversine_distance(c[1], c[2], c[3], c[4])]

\* distance = haversine_distance(lat, lng, SCIENCE_PARK_LAT, SCIENCE_PARK_LNG)
request_distance(data) ==
    distances[<<data.latitude, data.longitude, SCIENCE_PARK_LAT, SCIENCE_PARK_LNG>>]

\* mutant: distance >= ALLOWED_RADIUS_METERS
too_far_at_edge(distance) == ~FGt(FInt(ALLOWED_RADIUS_METERS), distance)

\* distance > ALLOWED_RADIUS_METERS
too_far(distance) == FGt(distance, FInt(ALLOWED_RADIUS_METERS))

\* mutant: the two numbers in each other's field
too_far_body_swapped(distance) ==
    [error |-> "Too far from Science Park", distance |-> ALLOWED_RADIUS_METERS * 10,
     allowed_radius |-> Round1(distance)]

too_far_body(distance) ==
    [error |-> "Too far from Science Park", distance |-> Round1(distance),
     allowed_radius |-> ALLOWED_RADIUS_METERS]

\* mutant: the time of the rejected attempt instead of the existing row's
already_body_now(existing) ==
    [error |-> "Already checked in today", check_in_time |-> isoformat(utcnow)]

already_body(existing) ==
    [error |-> "Already checked in today",
     check_in_time |-> isoformat(existing.check_in_time)]

\* .first() of a lookup that found rows
first(found) == CHOOSE r \in found : TRUE

(***************************************************************************)
(* POST /api/verify-location (app.py 193-235)                              *)
(***************************************************************************)
verify_location_response(user, data) ==
    IF user = None
    THEN Response("verify-location", user, NoBody, NoDate, 401,
                  [error |-> "Not authenticated"])
    ELSE IF missing_coordinates(data)
    THEN Response("verify-location", user, data, NoDate, 400,
                  [error |-> "Missing coordinates"])
    ELSE IF too_far(request_distance(data))
    THEN Response("verify-location", user, data, NoDate, 400,
                  too_far_body(request_distance(data)))
    ELSE LET existing == filter_by_user_date(checkins, user, date_today)
         IN  IF existing # {}
             THEN Response("verify-location", user, data, date_today, 400,
                           already_body(first(existing)))
             ELSE Response("verify-location", user, data, date_today, 200,
                           [success |-> TRUE,
                            distance |-> Round1(request_distance(data)),
                            latitude |-> data.latitude,
                            longitude |-> data.longitude])

\* mutant: a successful verification reserves the day's row
verify_location_reserving(cred, data) ==
    /\ resp' = verify_location_response(api_login_required(cred), data)
    /\ verified' = IF resp'.status = 200 THEN verified \cup {resp'.user} ELSE verified
    /\ checkins' = IF resp'.status = 200
                   THEN checkins \cup {[user_id |-> resp'.user,
                                        check_in_date |-> date_today,
                                        check_in_time |-> utcnow,
                                        latitude |-> data.latitude,
                                        longitude |-> data.longitude,
                                        photo_data |-> None]}
                   ELSE checkins
    /\ UNCHANGED <<distances, issued, users, auth_tokens, now, tz, req>>

verify_location(cred, data) ==
    /\ resp' = verify_location_response(api_login_required(cred), data)
    /\ verified' = IF resp'.status = 200 THEN verified \cup {resp'.user} ELSE verified
    /\ UNCHANGED <<distances, issued, checkins, users, auth_tokens, now, tz, req>>

(***************************************************************************)
(* POST /api/checkin (app.py 238-295), in three steps: the checks up to    *)
(* the lookup of an existing row, the construction of the CheckIn (which   *)
(* reads the clock), and the commit.                                       *)
(***************************************************************************)
Idle ==
    [pc |-> "idle", user |-> None, data |-> NoBody,
     today |-> NoDate, check_in_time |-> 0]

\* mutant: the lookup is skipped for a user whose location was verified
checkin_checks_trusting(user, data) ==
    IF user = None
    THEN Response("checkin", user, NoBody, NoDate, 401, [error |-> "Not authenticated"])
    ELSE IF missing_coordinates(data)
    THEN Response("checkin", user, data, NoDate, 400, [error |-> "Missing coordinates"])
    ELSE IF missing_photo(data)
    THEN Response("checkin", user, data, NoDate, 400, [error |-> "Photo is required"])
    ELSE IF too_far(request_distance(data))
    THEN Response("checkin", user, data, NoDate, 400,
                  too_far_body(request_distance(data)))
    ELSE LET existing == filter_by_user_date(checkins, user, date_today)
         IN  IF existing # {} /\ user \notin verified
             THEN Response("checkin", user, data, date_today, 400,
                           already_body(first(existing)))
             ELSE NoResp

\* mutant: the photo is checked after the geofence
checkin_checks_photo_last(user, data) ==
    IF user = None
    THEN Response("checkin", user, NoBody, NoDate, 401, [error |-> "Not authenticated"])
    ELSE IF missing_coordinates(data)
    THEN Response("checkin", user, data, NoDate, 400, [error |-> "Missing coordinates"])
    ELSE IF too_far(request_distance(data))
    THEN Response("checkin", user, data, NoDate, 400,
                  too_far_body(request_distance(data)))
    ELSE IF missing_photo(data)
    THEN Response("checkin", user, data, NoDate, 400, [error |-> "Photo is required"])
    ELSE LET existing == filter_by_user_date(checkins, user, date_today)
         IN  IF existing # {}
             THEN Response("checkin", user, data, date_today, 400,
                           already_body(first(existing)))
             ELSE NoResp

\* the error response of the checks of lines 245-276, or NoResp when all pass
\* mutant: the lookup of today's row before the geofence test
checkin_checks_already_first(user, data) ==
    IF user = None
    THEN Response("checkin", user, NoBody, NoDate, 401, [error |-> "Not authenticated"])
    ELSE IF missing_coordinates(data)
    THEN Response("checkin", user, data, NoDate, 400, [error |-> "Missing coordinates"])
    ELSE IF missing_photo(data)
    THEN Response("checkin", user, data, NoDate, 400, [error |-> "Photo is required"])
    ELSE LET existing == filter_by_user_date(checkins, user, date_today)
         IN  IF existing # {}
             THEN Response("checkin", user, data, date_today, 400,
                           already_body(first(existing)))
             ELSE IF too_far(request_distance(data))
             THEN Response("checkin", user, data, NoDate, 400,
                           too_far_body(request_distance(data)))
             ELSE NoResp

checkin_checks(user, data) ==
    IF user = None
    THEN Response("checkin", user, NoBody, NoDate, 401, [error |-> "Not authenticated"])
    ELSE IF missing_coordinates(data)
    THEN Response("checkin", user, data, NoDate, 400, [error |-> "Missing coordinates"])
    ELSE IF missing_photo(data)
    THEN Response("checkin", user, data, NoDate, 400, [error |-> "Photo is required"])
    ELSE IF too_far(request_distance(data))
    THEN Response("checkin", user, data, NoDate, 400,
                  too_far_body(request_distance(data)))
    ELSE LET existing == filter_by_user_date(checkins, user, date_today)
         IN  IF existing # {}
             THEN Response("checkin", user, data, date_today, 400,
                           already_body(first(existing)))
             ELSE NoResp

checkin_begin(p, cred, data) ==
    /\ req[p].pc = "idle"
    /\ LET user == api_login_required(cred)
           failed == checkin_checks(user, data)
       IN  IF failed.op # "none"
           THEN /\ resp' = failed
                /\ req' = req
           ELSE /\ resp' = NoResp
                /\ req' = [req EXCEPT ![p] =
                              [pc |-> "build", user |-> user, data |-> data,
                               today |-> date_today, check_in_time |-> 0]]
    /\ UNCHANGED <<distances, issued, checkins, users, auth_tokens, now, tz, verified>>

\* CheckIn(user_id=..., check_in_date=today, check_in_time=datetime.utcnow(), ...)
checkin_build(p) ==
    /\ req[p].pc = "build"
    /\ req' = [req EXCEPT ![p].pc = "commit", ![p].check_in_time = utcnow]
    /\ resp' = NoResp
    /\ UNCHANGED <<distances, issued, checkins, users, auth_tokens, now, tz, verified>>

\* mutant: the row holds the reference point instead of the submitted one
new_checkin_at_reference(r) ==
    [user_id |-> r.user, check_in_date |-> r.today,
     check_in_time |-> r.check_in_time, latitude |-> SCIENCE_PARK_LAT,
     longitude |-> SCIENCE_PARK_LNG, photo_data |-> r.data.photo]

new_checkin(r) ==
    [user_id |-> r.user, check_in_date |-> r.today,
     check_in_time |-> r.check_in_time, latitude |-> r.data.latitude,
     longitude |-> r.data.longitude, photo_data |-> r.data.photo]

checkin_success(r) ==
    Response("checkin", r.user, r.data, r.today, 200,
             [success |-> TRUE, check_in_time |-> isoformat(r.check_in_time),
              distance |-> Round1(request_distance(r.data))])

\* the commit raised IntegrityError, which checkin does not catch
checkin_integrity_error(r) ==
    Response("checkin", r.user, r.data, r.today, 500,
             [error |-> "Internal Server Error"])

\* db.session.add(checkin); db.session.commit(); return jsonify(...)
checkin_commit(p) ==
    /\ req[p].pc = "commit"
    /\ LET row == new_checkin(req[p])
       IN  IF unique_user_date(checkins, row)
           THEN /\ checkins' = db_insert(checkins, row)
                /\ resp' = checkin_success(req[p])
           ELSE /\ checkins' = checkins
                /\ resp' = checkin_integrity_error(req[p])
    /\ req' = [req EXCEPT ![p] = Idle]
    /\ UNCHANGED <<distances, issued, users, auth_tokens, now, tz, verified>>

(***************************************************************************)
(* GET /api/status (app.py 297-313)                                        *)
(***************************************************************************)
\* mutant: the lookup without its date
get_status_response_any_date(user) ==
    IF user = None
    THEN Response("status", user, Idle.data, NoDate, 401,
                  [error |-> "Not authenticated"])
    ELSE LET found == {r \in checkins : r.user_id = user}
         IN  IF found # {}
             THEN Response("status", user, Idle.data, date_today, 200,
                           [checked_in |-> TRUE,
                            check_in_time |-> isoformat(first(found).check_in_time)])
             ELSE Response("status", user, Idle.data, date_today, 200,
                           [checked_in |-> FALSE])

get_status_response(user) ==
    IF user = None
    THEN Response("status", user, Idle.data, NoDate, 401,
                  [error |-> "Not authenticated"])
    ELSE LET found == filter_by_user_date(checkins, user, date_today)
         IN  IF found # {}
             THEN Response("status", user, Idle.data, date_today, 200,
                           [checked_in |-> TRUE,
                            check_in_time |-> isoformat(first(found).check_in_time)])
             ELSE Response("status", user, Idle.data, date_today, 200,
                           [checked_in |-> FALSE])

get_status(cred) ==
    /\ resp' = get_status_response(api_login_required(cred))
    /\ UNCHANGED <<distances, issued, checkins, users, auth_tokens, now, tz, req, verified>>

(***************************************************************************)
(* GET /api/leaderboard, GET /api/history (app.py 317-369)                 *)
(***************************************************************************)
\* mutant: the query without its date filter
filter_all_dates(table, day) == table

\* CheckIn.query.filter_by(check_in_date=day)
filter_by_date(table, day) == {r \in table : r.check_in_date = day}

\* mutant: the query without its order_by
order_any(found) ==
    {s \in [1..Cardinality(found) -> found] :
        \A i, j \in DOMAIN s : i # j => s[i] # s[j]}

\* .order_by(CheckIn.check_in_time.asc()).all(): every order of the rows the
\* database may return; rows of equal check_in_time come in any order
order_by_time(found) ==
    {s \in [1..Cardinality(found) -> found] :
        /\ \A i, j \in DOMAIN s : i # j => s[i] # s[j]
        /\ \A i, j \in DOMAIN s : i < j => s[i].check_in_time <= s[j].check_in_time}

leaderboard_entries(ordered) ==
    [i \in DOMAIN ordered |->
        [rank |-> i, name |-> users[ordered[i].user_id].name,
         picture |-> users[ordered[i].user_id].picture,
         check_in_time |-> isoformat(ordered[i].check_in_time),
         photo |-> ordered[i].photo_data]]

get_leaderboard ==
    /\ \E ordered \in order_by_time(filter_by_date(checkins, date_today)) :
          resp' = Response("leaderboard", None, Idle.data, date_today, 200,
                           [date |-> date_today,
                            leaderboard |-> leaderboard_entries(ordered)])
    /\ UNCHANGED <<distances, issued, checkins, users, auth_tokens, now, tz, req, verified>>

\* mutant: the query without its limit
RECURSIVE dates_desc_unlimited(_, _)
dates_desc_unlimited(days, limit) ==
    IF days = {} THEN << >>
    ELSE LET d == CHOOSE x \in days : \A y \in days : y <= x
         IN  <<d>> \o dates_desc_unlimited(days \ {d}, limit)

\* the dates of the table, latest first, at most `limit` of them
\* (.distinct().order_by(CheckIn.check_in_date.desc()).limit(30))
RECURSIVE dates_desc(_, _)
dates_desc(days, limit) ==
    IF days = {} \/ limit = 0 THEN << >>
    ELSE LET d == CHOOSE x \in days : \A y \in days : y <= x
         IN  <<d>> \o dates_desc(days \ {d}, limit - 1)

\* mutant: ranks counted from 0
history_entries_from_zero(ordered) ==
    [i \in DOMAIN ordered |->
        [rank |-> i - 1, name |-> users[ordered[i].user_id].name,
         picture |-> users[ordered[i].user_id].picture,
         check_in_time |-> isoformat(ordered[i].check_in_time)]]

history_entries(ordered) ==
    [i \in DOMAIN ordered |->
        [rank |-> i, name |-> users[ordered[i].user_id].name,
         picture |-> users[ordered[i].user_id].picture,
         check_in_time |-> isoformat(ordered[i].check_in_time)]]

HISTORY_LIMIT == 30

\* for each date in turn, the rows of that date in an order the database
\* may return: every sequence of such per-date lists
RECURSIVE day_lists(_, _)
day_lists(table, dates) ==
    IF dates = << >> THEN {<< >>}
    ELSE {<<ordered>> \o rest :
             ordered \in order_by_time(filter_by_date(table, Head(dates))),
             rest \in day_lists(table, Tail(dates))}

get_history ==
    /\ LET dates == dates_desc({r.check_in_date : r \in checkins}, HISTORY_LIMIT)
       IN  \E lists \in day_lists(checkins, dates) :
              resp' = Response("history", None, Idle.data, NoDate, 200,
                               [history |-> [i \in DOMAIN dates |->
                                   [date |-> dates[i],
                                    entries |-> history_entries(lists[i])]]])
    /\ UNCHANGED <<distances, issued, checkins, users, auth_tokens, now, tz, req, verified>>

(***************************************************************************)
(* GET /auth/callback, GET /auth/logout (app.py 119-172).  The session is  *)
(* a signed cookie kept by the client: a request presents it as its        *)
(* credential, and the server stores nothing for it.                       *)
(***************************************************************************)
\* timedelta(days=30)
TOKEN_TTL_DAYS == 30

\* the values secrets.token_urlsafe(32) can return; a value is never returned twice
Tokens == {"tok1", "tok2"}

\* auth_tokens[auth_token] = {'user_id': ..., 'expires': utcnow() + 30 days}
issue_token(store, tok, user_id) ==
    [t \in DOMAIN store \cup {tok} |->
        IF t = tok
        THEN [user_id |-> user_id, expires |-> utcnow + TOKEN_TTL_DAYS * TicksPerDay]
        ELSE store[t]]

\* expired = [t for t, data in auth_tokens.items() if data['expires'] < now]
sweep_expired(store) ==
    [t \in {x \in DOMAIN store : ~(store[x].expires < utcnow)} |-> store[t]]

\* sub: the Google id of userinfo, None when the token carries no userinfo;
\* the user's row is created or refreshed with the name Google reports
auth_callback(sub, tok) ==
    /\ IF sub = None
       THEN /\ resp' = Response("auth-callback", None, NoBody, NoDate, 302,
                                [error |-> "auth_failed"])
            /\ UNCHANGED <<users, auth_tokens, issued>>
       ELSE /\ tok \notin DOMAIN issued
            /\ users' = [u \in DOMAIN users \cup {sub} |->
                            IF u = sub THEN [name |-> sub, picture |-> None]
                                       ELSE users[u]]
            /\ auth_tokens' = sweep_expired(issue_token(auth_tokens, tok, sub))
            /\ issued' = [t \in DOMAIN issued \cup {tok} |->
                             IF t = tok THEN [user_id |-> sub, at |-> utcnow]
                                        ELSE issued[t]]
            /\ resp' = Response("auth-callback", sub, NoBody, NoDate, 302,
                                [auth_token |-> tok])
    /\ UNCHANGED <<distances, checkins, now, tz, req, verified>>

\* logout_user(); return redirect(frontend_url)
\* mutant: logging out also revokes the tokens in the store
logout_revoking ==
    /\ resp' = Response("logout", None, NoBody, NoDate, 302,
                        [location |-> "frontend_url"])
    /\ auth_tokens' = [t \in {} |-> [user_id |-> None, expires |-> 0]]
    /\ UNCHANGED <<distances, issued, checkins, users, now, tz, req, verified>>

logout ==
    /\ resp' = Response("logout", None, NoBody, NoDate, 302,
                        [location |-> "frontend_url"])
    /\ UNCHANGED <<distances, issued, checkins, users, auth_tokens, now, tz, req, verified>>

(***************************************************************************)
(* The clock advances by one tick                                          *)
(***************************************************************************)
ClockTick(limit) ==
    /\ now < limit
    /\ now' = now + 1
    /\ resp' = NoResp
    /\ UNCHANGED <<distances, issued, checkins, users, auth_tokens, tz, req, verified>>

Tick == ClockTick(MaxTime)

(***************************************************************************)
(* Specifications.  The program state is that of a freshly started server  *)
(* process (empty token store, UTC local time) over a database that holds  *)
(* the registered users and no check-in yet.                               *)
(***************************************************************************)
InitProgram ==
    /\ checkins = {}
    /\ users = [u \in UserIds |-> [name |-> u, picture |-> None]]
    /\ auth_tokens = [t \in {} |-> [user_id |-> None, expires |-> 0]]
    /\ now = 0
    /\ tz = 0
    /\ req = [p \in Workers |-> Idle]
    /\ resp = NoResp
    /\ distances = DistanceTable
    /\ issued = [t \in {} |-> [user_id |-> None, at |-> 0]]

\* Spec: requests race on all workers; every user has already had a
\* verify-location succeed (on the empty ledger)
Init ==
    /\ InitProgram
    /\ verified = UserIds

Next ==
    \/ \E cred \in Credentials, data \in LedgerBodies : verify_location(cred, data)
    \/ \E p \in Workers, cred \in Credentials, data \in LedgerBodies :
          checkin_begin(p, cred, data)
    \/ \E p \in Workers : checkin_build(p)
    \/ \E p \in Workers : checkin_commit(p)
    \/ \E cred \in Credentials : get_status(cred)
    \/ get_leaderboard
    \/ get_history
    \/ Tick

Spec == Init /\ [][Next]_vars

\* SpecSeq: every operation, one request at a time (worker 1), with every
\* request body, of one user or of no user
SeqCredentials == {c \in Credentials : c.session_user \in {"u1", None}}

InitSeq ==
    /\ InitProgram
    /\ verified = {}

NextSeq ==
    \/ \E cred \in SeqCredentials, data \in Bodies : verify_location(cred, data)
    \/ \E cred \in SeqCredentials, data \in Bodies : checkin_begin(1, cred, data)
    \/ checkin_build(1)
    \/ checkin_commit(1)
    \/ \E cred \in SeqCredentials : get_status(cred)
    \/ get_leaderboard
    \/ get_history
    \/ \E sub \in {"u1", None} : auth_callback(sub, "tok1")
    \/ logout
    \/ Tick

SpecSeq == InitSeq /\ [][NextSeq]_vars

\* SpecHist: the reads over a ledger that has been filled for up to
\* MaxHistoryDays days.  The ledger of the initial state is one that daily
\* check-ins produce: u1 checked in at the first tick of each of `days` dates
\* (every date, or every second one), u2 one tick later on every third of
\* them; it is now the first tick of the day after.
MaxHistoryDays == 32

HistoryRow(user, day, tick) ==
    new_checkin([user |-> user, today |-> day,
                 check_in_time |-> day * TicksPerDay + tick,
                 data |-> Body(EdgePoint, "img1")])

HistoryLedger(days, stride) ==
    {HistoryRow("u1", stride * i, 0) : i \in 0..(days - 1)}
    \cup {HistoryRow("u2", stride * i, 1) : i \in {j \in 0..(days - 1) : j % 3 = 0}}

InitHist ==
    /\ \E days \in 0..MaxHistoryDays, stride \in {1, 2} :
          /\ checkins = HistoryLedger(days, stride)
          /\ now = stride * days * TicksPerDay
    /\ users = [u \in UserIds |-> [name |-> u, picture |-> None]]
    /\ auth_tokens = [t \in {} |-> [user_id |-> None, expires |-> 0]]
    /\ tz = 0
    /\ req = [p \in Workers |-> Idle]
    /\ resp = NoResp
    /\ distances = DistanceTable
    /\ issued = [t \in {} |-> [user_id |-> None, at |-> 0]]
    /\ verified = {}

NextHist ==
    \/ get_history
    \/ get_leaderboard
    \/ \E cred \in SeqCredentials : get_status(cred)
    \/ \E cred \in SeqCredentials : checkin_begin(1, cred, Body(EdgePoint, "img1"))
    \/ checkin_build(1)
    \/ checkin_commit(1)
    \/ Tick

SpecHist == InitHist /\ [][NextHist]_vars

\* SpecHav: haversine_distance as a pure function, applied to every pair of
\* points of a grid around the equator and the prime meridian (both
\* hemispheres, both signs of longitude) and of the sample points.
HavSteps == 1

\* grid spacing in microdegrees
HavLatStep == 37123457

HavLngStep == 81234567

HavPoints ==
    Points \cup {<<i * HavLatStep, j * HavLngStep>> :
                    i \in (0 - HavSteps)..HavSteps, j \in (0 - HavSteps)..HavSteps}

HavArgs(a, b) == <<Deg(a[1]), Deg(a[2]), Deg(b[1]), Deg(b[2])>>

HavTable ==
    [c \in {HavArgs(a, b) : a \in HavPoints, b \in HavPoints} |->
        haversine_distance(c[1], c[2], c[3], c[4])]

InitHav ==
    /\ checkins = {}
    /\ users = [u \in UserIds |-> [name |-> u, picture |-> None]]
    /\ auth_tokens = [t \in {} |-> [user_id |-> None, expires |-> 0]]
    /\ issued = [t \in {} |-> [user_id |-> None, at |-> 0]]
    /\ now = 0
    /\ tz = 0
    /\ req = [p \in Workers |-> Idle]
    /\ resp = NoResp
    /\ distances = HavTable
    /\ verified = {}

\* haversine_distance(a.lat, a.lng, b.lat, b.lng)
haversine_call(a, b) ==
    /\ resp' = [op |-> "haversine", a |-> a, b |-> b,
                distance |-> distances[HavArgs(a, b)]]
    /\ UNCHANGED <<distances, issued, checkins, users, auth_tokens, now, tz, req,
                   verified>>

NextHav == \E a \in HavPoints, b \in HavPoints : haversine_call(a, b)

SpecHav == InitHav /\ [][NextHav]_vars

\* SpecAuth: requests with session and Bearer credentials around the expiry
\* of a token.  In the initial state u1 logged in at time 0, which issued
\* tok1, and the clock has since run to one tick before tok1 expires; it runs
\* on to AuthTicks ticks past the expiry.  tok2 can be issued to u2; tok3 is a
\* value the server never issued.
TokenLifetime == TOKEN_TTL_DAYS * TicksPerDay

\* ticks the clock runs past the first token's expiry
AuthTicks == 1

AuthHorizon == TokenLifetime + AuthTicks

AuthCredentials ==
    {[session_user |-> u, bearer |-> t] :
        u \in {None, "u1"}, t \in {None, "tok1", "tok2", "tok3"}}

AuthBodies == {NoBody, Body(EdgePoint, "img1")}

InitAuth ==
    /\ checkins = {}
    /\ users = [u \in UserIds |-> [name |-> u, picture |-> None]]
    /\ auth_tokens = [t \in {"tok1"} |-> [user_id |-> "u1", expires |-> TokenLifetime]]
    /\ issued = [t \in {"tok1"} |-> [user_id |-> "u1", at |-> 0]]
    /\ now = TokenLifetime - 1
    /\ tz = 0
    /\ req = [p \in Workers |-> Idle]
    /\ resp = NoResp
    /\ distances = DistanceTable
    /\ verified = {}

NextAuth ==
    \/ \E sub \in {"u2", None} : auth_callback(sub, "tok2")
    \/ logout
    \/ \E cred \in AuthCredentials : get_status(cred)
    \/ \E cred \in AuthCredentials, data \in AuthBodies : verify_location(cred, data)
    \/ \E cred \in AuthCredentials, data \in AuthBodies : checkin_begin(1, cred, data)
    \/ checkin_build(1)
    \/ checkin_commit(1)
    \/ ClockTick(AuthHorizon)

SpecAuth == InitAuth /\ [][NextAuth]_vars

(***************************************************************************)
(* Properties                                                              *)
(***************************************************************************)
Already(r) ==
    /\ r.op \in {"verify-location", "checkin"}
    /\ r.status = 400
    /\ r.body.error = "Already checked in today"

TooFar(r) ==
    /\ r.op \in {"verify-location", "checkin"}
    /\ r.status = 400
    /\ r.body.error = "Too far from Science Park"

\* the distance of the body's coordinates is strictly greater than the radius
Beyond(data) == FSub(request_distance(data), FInt(ALLOWED_RADIUS_METERS))[1] > 0

\* the response of an authenticated request whose body passed validation
Validated(r) ==
    /\ r.op \in {"verify-location", "checkin"}
    /\ r.user # None
    /\ ~missing_coordinates(r.data)
    /\ r.op = "checkin" => ~missing_photo(r.data)

\* C1: the ledger holds at most one CheckIn row per (user_id, check_in_date).
C1_OneCheckInPerUserDate ==
    \A r1, r2 \in checkins :
        (r1.user_id = r2.user_id /\ r1.check_in_date = r2.check_in_date) => r1 = r2

\* two checkin requests raced and the ledger holds the one row of the winner
C1_Witness ==
    /\ resp.op = "checkin"
    /\ resp.status = 500
    /\ Cardinality(filter_by_user_date(checkins, resp.user, resp.today)) = 1

\* C2: a checkin request with valid coordinates and photo either succeeds or
\* returns the 'Already checked in today' failure, also when it loses the
\* race for the insert.
C2_RaceLoserSeesAlreadyCheckedIn ==
    (Validated(resp) /\ resp.op = "checkin" /\ ~Beyond(resp.data))
        => (resp.status = 200 \/ Already(resp))

\* C3: a checkin request passes its checks only if, when it is evaluated, its
\* own distance is within the radius and its own lookup finds no row for
\* (user, today); success comes only from a request that passed them; and a
\* valid checkin request of a user whose verify-location succeeded earlier, but
\* who has a row for today by now, fails with 'Already checked in today' and
\* inserts nothing.
C3_StepsValidateIndependently ==
    [][/\ \A p \in Workers :
             (req[p].pc = "idle" /\ req'[p].pc = "build")
                 => /\ ~Beyond(req'[p].data)
                    /\ filter_by_user_date(checkins, req'[p].user, req'[p].today) = {}
       /\ (resp'.op = "checkin" /\ resp'.status = 200)
             => \E p \in Workers :
                   req[p].pc = "commit" /\ req'[p].pc = "idle" /\ req[p].user = resp'.user
       /\ (/\ Validated(resp') /\ resp'.op = "checkin" /\ ~Beyond(resp'.data)
           /\ \A p \in Workers : req[p].pc # "commit"
           /\ resp'.user \in verified
           /\ filter_by_user_date(checkins, resp'.user, date_today) # {})
             => (Already(resp') /\ checkins' = checkins)]_vars

\* a checkin was rejected as already checked in after the user's
\* verify-location had succeeded
C3_Witness == Already(resp) /\ resp.op = "checkin" /\ resp.user \in verified

\* C4: an 'Already checked in today' rejection carries the check_in_time of the
\* existing row of (user, today) and leaves the ledger unchanged.
C4_AlreadyCarriesExistingTime ==
    [][Already(resp')
          => /\ checkins' = checkins
             /\ filter_by_user_date(checkins, resp'.user, resp'.today) # {}
             /\ \A r \in filter_by_user_date(checkins, resp'.user, resp'.today) :
                   resp'.body.check_in_time = isoformat(r.check_in_time)]_vars

\* a second attempt at a later time was rejected with the first one's time
C4_Witness ==
    /\ Already(resp)
    /\ resp.op = "checkin"
    /\ resp.body.check_in_time # isoformat(utcnow)

\* C5: a validated submission is rejected as too far if and only if its
\* distance is strictly greater than the allowed radius, and a checkin request
\* passes its checks only within the radius (the edge included).
C5_GeofenceInclusive ==
    /\ Validated(resp) => (TooFar(resp) <=> Beyond(resp.data))
    /\ \A p \in Workers : req[p].pc # "idle" => ~Beyond(req[p].data)

\* a submission at exactly the allowed radius passed the geofence test
C5_Witness ==
    /\ resp.op = "verify-location"
    /\ resp.status = 200
    /\ request_distance(resp.data) = FInt(ALLOWED_RADIUS_METERS)

\* C6: a too-far rejection carries the computed distance (to one decimal) and
\* the allowed radius, and leaves the ledger and the requests in hand unchanged.
C6_TooFarCarriesDistanceAndRadius ==
    [][TooFar(resp')
          => /\ resp'.body.distance = Round1(request_distance(resp'.data))
             /\ resp'.body.allowed_radius = ALLOWED_RADIUS_METERS
             /\ checkins' = checkins
             /\ req' = req]_vars

\* a checkin with a photo, by a user with no check-in today, was rejected as too far
C6_Witness ==
    /\ TooFar(resp)
    /\ resp.op = "checkin"
    /\ ~missing_photo(resp.data)
    /\ filter_by_user_date(checkins, resp.user, date_today) = {}

\* C7: an authenticated checkin request with coordinates but no photo fails
\* with 'Photo is required', whatever its coordinates and whether or not the
\* user has checked in today, and the ledger is unchanged.
C7_PhotoRequired ==
    [][/\ (/\ resp'.op = "checkin"
           /\ resp'.user # None
           /\ ~missing_coordinates(resp'.data)
           /\ missing_photo(resp'.data))
             => /\ resp'.status = 400
                /\ resp'.body.error = "Photo is required"
                /\ checkins' = checkins
                /\ req' = req
       /\ \A p \in Workers : req'[p].pc # "idle" => ~missing_photo(req'[p].data)]_vars

\* a checkin without photo, out of range, of a user who has checked in today,
\* was rejected for the missing photo
C7_Witness ==
    /\ resp.op = "checkin"
    /\ resp.status = 400
    /\ resp.body.error = "Photo is required"
    /\ Beyond(resp.data)
    /\ filter_by_user_date(checkins, resp.user, date_today) # {}

\* C8: every committed row is present, unchanged, in every later state: no
\* operation, login and logout included, modifies or deletes a row.
C8_AppendOnly == [][checkins \subseteq checkins']_vars

\* a row of an earlier date is still there after its user checked in again
C8_Witness ==
    \E r1, r2 \in checkins :
        r1.user_id = r2.user_id /\ r1.check_in_date < r2.check_in_date

\* C9: a successful checkin has inserted exactly one row, of its user, dated
\* with the request's today, holding the submitted coordinates and photo;
\* a checkin that returns an error inserts nothing; nothing else inserts.
C9_SuccessInsertsExactlyOneRow ==
    [][/\ (resp'.op = "checkin" /\ resp'.status = 200)
             => \E row \in checkins' \ checkins :
                   /\ checkins' = checkins \cup {row}
                   /\ row.user_id = resp'.user
                   /\ row.check_in_date = resp'.today
                   /\ row.latitude = resp'.data.latitude
                   /\ row.longitude = resp'.data.longitude
                   /\ row.photo_data = resp'.data.photo
       /\ (resp'.op = "checkin" /\ resp'.status # 200) => checkins' = checkins
       /\ checkins' # checkins => (resp'.op = "checkin" /\ resp'.status = 200)]_vars

\* a checkin succeeded while the ledger held a row of another user
C9_Witness ==
    /\ resp.op = "checkin"
    /\ resp.status = 200
    /\ \E r \in checkins : r.user_id # resp.user

\* C10: verify-location, status, leaderboard and history change neither the
\* ledger nor any other stored state, whatever their outcome.
C10_ReadsArePure ==
    [][resp'.op \in {"verify-location", "status", "leaderboard", "history"}
          => /\ checkins' = checkins
             /\ req' = req
             /\ users' = users
             /\ auth_tokens' = auth_tokens]_vars

\* a verify-location succeeded on a non-empty ledger and left no row for its user
C10_Witness ==
    /\ resp.op = "verify-location"
    /\ resp.status = 200
    /\ checkins # {}
    /\ filter_by_user_date(checkins, resp.user, resp.today) = {}

\* t1 is strictly earlier than t2 (isoformat values)
IsoBefore(t1, t2) == t1[1] < t2[1] \/ (t1[1] = t2[1] /\ t1[2] < t2[2])

\* the ranks of a ranked list are 1..n in sequence order and its entries are
\* ordered by ascending check_in_time
Ranked(entries) ==
    /\ DOMAIN entries = 1..Cardinality(DOMAIN entries)
    /\ \A i \in DOMAIN entries : entries[i].rank = i
    /\ \A i, j \in DOMAIN entries :
          /\ i < j => ~IsoBefore(entries[j].check_in_time, entries[i].check_in_time)
          /\ IsoBefore(entries[i].check_in_time, entries[j].check_in_time)
                => entries[i].rank < entries[j].rank

\* C11: in every leaderboard response the ranks are exactly 1..n in sequence
\* order, the entries are ordered by ascending check_in_time, and an entry with
\* a strictly earlier check_in_time has a strictly smaller rank.
C11_LeaderboardRanks == resp.op = "leaderboard" => Ranked(resp.body.leaderboard)

\* a leaderboard of two users who checked in at different times
C11_Witness ==
    /\ resp.op = "leaderboard"
    /\ Cardinality(DOMAIN resp.body.leaderboard) = 2
    /\ IsoBefore(resp.body.leaderboard[1].check_in_time,
                 resp.body.leaderboard[2].check_in_time)

\* the leaderboard entry shows the row: its user's name and picture, its time
\* and its photo
ShowsRow(entry, row) ==
    /\ entry.name = users[row.user_id].name
    /\ entry.picture = users[row.user_id].picture
    /\ entry.check_in_time = isoformat(row.check_in_time)
    /\ entry.photo = row.photo_data

\* C12: a leaderboard response has exactly one entry per CheckIn row dated
\* today and no other entry; no user appears twice; with no row for today the
\* leaderboard is the empty sequence.
C12_LeaderboardContents ==
    resp.op = "leaderboard" =>
        LET lb == resp.body.leaderboard
            rows == {r \in checkins : r.check_in_date = date_today}
        IN  /\ resp.status = 200
            /\ resp.body.date = date_today
            /\ Cardinality(DOMAIN lb) = Cardinality(rows)
            /\ \A r \in rows :
                  Cardinality({i \in DOMAIN lb : ShowsRow(lb[i], r)}) = 1
            /\ \A i \in DOMAIN lb : \E r \in rows : ShowsRow(lb[i], r)
            /\ \A i, j \in DOMAIN lb : i # j => lb[i].name # lb[j].name
            /\ rows = {} => lb = << >>

\* a leaderboard with an entry, read while the ledger held a row of another date
C12_Witness ==
    /\ resp.op = "leaderboard"
    /\ DOMAIN resp.body.leaderboard # {}
    /\ \E r \in checkins : r.check_in_date # date_today

\* C13: a history response lists at most 30 dates, strictly descending, which
\* are exactly the min(30, k) most recent of the k distinct dates that have a
\* CheckIn row; every listed date has a non-empty entry list, and an empty
\* ledger yields an empty history.
C13_HistoryDates ==
    resp.op = "history" =>
        LET h == resp.body.history
            n == Cardinality(DOMAIN h)
            days == {r.check_in_date : r \in checkins}
            shown == {h[i].date : i \in DOMAIN h}
        IN  /\ DOMAIN h = 1..n
            /\ n <= 30
            /\ n = (IF Cardinality(days) < 30 THEN Cardinality(days) ELSE 30)
            /\ \A i, j \in DOMAIN h : i < j => h[i].date > h[j].date
            /\ shown \subseteq days
            /\ \A d \in days \ shown : \A e \in shown : d < e
            /\ \A i \in DOMAIN h : DOMAIN h[i].entries # {}
            /\ checkins = {} => h = << >>

\* a history of 30 dates over a ledger that holds rows of more than 30 dates
C13_Witness ==
    /\ resp.op = "history"
    /\ Cardinality(DOMAIN resp.body.history) = 30
    /\ Cardinality({r.check_in_date : r \in checkins}) > 30

\* a leaderboard entry with its photo field left out
WithoutPhoto(entry) ==
    [rank |-> entry.rank, name |-> entry.name, picture |-> entry.picture,
     check_in_time |-> entry.check_in_time]

\* C14: for every date of a history response, the entry list is a ranked list
\* the daily leaderboard produces for that date over the same ledger (same
\* users, ascending check_in_time, ranks from 1), each entry without its photo.
C14_HistoryEntriesAreLeaderboard ==
    resp.op = "history" =>
        \A i \in DOMAIN resp.body.history :
            LET day == resp.body.history[i] IN
            \E ordered \in order_by_time(filter_by_date(checkins, day.date)) :
                day.entries = [k \in DOMAIN ordered |->
                                  WithoutPhoto(leaderboard_entries(ordered)[k])]

\* a history with a date on which two users checked in, with photos
C14_Witness ==
    /\ resp.op = "history"
    /\ \E i \in DOMAIN resp.body.history :
          Cardinality(DOMAIN resp.body.history[i].entries) = 2
    /\ \A r \in checkins : r.photo_data = "img1"

\* C15: a status response of an authenticated user reports checked_in = TRUE
\* with a check_in_time if and only if the ledger holds a row for (user,
\* today), and the time is that row's; rows of other users or dates have no
\* part in it; and the time a successful checkin returns is the time of the
\* row it inserted, which is what later status requests report.
C15_StatusIffRow ==
    [][/\ (resp'.op = "status" /\ resp'.status = 200)
             => LET rows == {r \in checkins : /\ r.user_id = resp'.user
                                              /\ r.check_in_date = date_today}
                IN  /\ resp'.body.checked_in <=> rows # {}
                    /\ rows = {} => DOMAIN resp'.body = {"checked_in"}
                    /\ \A r \in rows :
                          resp'.body.check_in_time = isoformat(r.check_in_time)
       /\ (resp'.op = "checkin" /\ resp'.status = 200)
             => \E row \in checkins' \ checkins :
                   /\ row.user_id = resp'.user
                   /\ resp'.body.check_in_time = isoformat(row.check_in_time)]_vars

\* a user with a row of an earlier date only asked for the status on a day on
\* which another user has checked in
C15_Witness ==
    /\ resp.op = "status"
    /\ resp.status = 200
    /\ ~resp.body.checked_in
    /\ \E r \in checkins : r.user_id = resp.user
    /\ \E r \in checkins : r.user_id # resp.user /\ r.check_in_date = date_today

\* the request has neither a session user nor a Bearer token that is in the
\* token store and unexpired
Unauthenticated(cred) ==
    /\ cred.session_user = None
    /\ ~(/\ cred.bearer \in DOMAIN auth_tokens
          /\ auth_tokens[cred.bearer].expires > now)

\* the step is verify-location, checkin (its checks) or status, called with cred
CalledWith(cred) ==
    \/ /\ resp'.op = "status"
       /\ get_status(cred)
    \/ /\ resp'.op = "verify-location"
       /\ \E data \in AuthBodies : verify_location(cred, data)
    \/ /\ resp'.op \in {"checkin", "none"}
       /\ \E p \in Workers, data \in AuthBodies : checkin_begin(p, cred, data)

\* the user the step has resolved for its request
ResolvedUser ==
    IF resp'.op # "none" THEN resp'.user
    ELSE req'[CHOOSE p \in Workers : req'[p] # req[p]].user

\* what C16 says of a step called with cred
AuthOutcome(cred) ==
    IF Unauthenticated(cred)
    THEN /\ resp'.op # "none"
         /\ resp'.status = 401
         /\ resp'.body = [error |-> "Not authenticated"]
         /\ resp'.data = NoBody
         /\ checkins' = checkins
         /\ req' = req
    ELSE /\ resp'.op # "none" => resp'.status # 401
         /\ ResolvedUser # None
         /\ cred.session_user # None => ResolvedUser = cred.session_user
         /\ cred.session_user = None
               => ResolvedUser = auth_tokens[cred.bearer].user_id

\* C16: verify-location, checkin and status answer a request that has neither
\* a session user nor a stored, unexpired Bearer token with 401 'Not
\* authenticated', without reading its body and without changing the ledger;
\* every other request passes, as its session user when it has one and as the
\* token's user only otherwise.  (CalledWith(cred) => AuthOutcome(cred), with
\* the state comparison written first.)
C16_NotAuthenticated ==
    [][\A cred \in AuthCredentials :
          \/ /\ resp'.op # "none" \/ req' # req
             /\ AuthOutcome(cred)
          \/ ~CalledWith(cred)]_vars

\* a checkin with a valid body and an expired token, still in the store, was
\* rejected as not authenticated
C16_Witness ==
    /\ resp.op = "checkin"
    /\ resp.status = 401
    /\ "tok1" \in DOMAIN auth_tokens
    /\ auth_tokens["tok1"].expires <= now

\* C17: haversine_distance(a, b, c, d) = haversine_distance(c, d, a, b), and
\* the distance of a point to itself is zero.
C17_HaversineSymmetric ==
    resp.op = "haversine" =>
        /\ resp.distance = distances[HavArgs(resp.b, resp.a)]
        /\ resp.a = resp.b => resp.distance = FZero

\* the distance between two points of opposite hemispheres was computed, and
\* it is not zero
C17_Witness ==
    /\ resp.op = "haversine"
    /\ resp.a[1] < 0 /\ resp.b[1] > 0
    /\ resp.a[2] > 0 /\ resp.b[2] < 0
    /\ resp.distance # FZero

\* the first failure condition, in the order of C18, that applies to a request
\* of an authenticated user ("" when none does)
FirstFailure(op, user, data) ==
    IF missing_coordinates(data) THEN "Missing coordinates"
    ELSE IF op = "checkin" /\ missing_photo(data) THEN "Photo is required"
    ELSE IF Beyond(data) THEN "Too far from Science Park"
    ELSE IF filter_by_user_date(checkins, user, date_today) # {}
    THEN "Already checked in today"
    ELSE ""

\* C18: the checks of checkin and of verify-location report the first failure
\* that applies, in the order missing coordinates, missing photo (checkin
\* only), too far, already checked in, and no other; a request passes them
\* only when none applies.
C18_FirstFailureReported ==
    [][/\ (/\ resp'.op \in {"verify-location", "checkin"}
           /\ resp'.user # None
           /\ \A p \in Workers : ~(req[p].pc = "commit" /\ req'[p].pc = "idle"))
             => IF FirstFailure(resp'.op, resp'.user, resp'.data) = ""
                THEN resp'.status = 200
                ELSE /\ resp'.status = 400
                     /\ resp'.body.error =
                            FirstFailure(resp'.op, resp'.user, resp'.data)
       /\ \A p \in Workers :
             (req[p].pc = "idle" /\ req'[p].pc = "build")
                 => FirstFailure("checkin", req'[p].user, req'[p].data) = ""]_vars

\* a checkin with a photo, out of range, of a user who has checked in today,
\* was rejected as too far
C18_Witness ==
    /\ TooFar(resp)
    /\ resp.op = "checkin"
    /\ ~missing_photo(resp.data)
    /\ filter_by_user_date(checkins, resp.user, date_today) # {}

\* C19: for every committed row, check_in_date is the calendar date of its
\* check_in_time.
C19_DateIsDayOfTime ==
    \A r \in checkins : r.check_in_date = isoformat(r.check_in_time)[1]

\* the Bearer token of cred was issued by a successful auth callback, is in
\* the token store with an expiry later than the current time, less than its
\* lifetime has passed since it was issued, and the step ran as the user it
\* was issued for
IssuedAndUnexpired(cred) ==
    /\ cred.bearer \in DOMAIN issued
    /\ cred.bearer \in DOMAIN auth_tokens
    /\ auth_tokens[cred.bearer].expires > now
    /\ now < issued[cred.bearer].at + TokenLifetime
    /\ resp'.op # "none" \/ req' # req
    /\ ResolvedUser = issued[cred.bearer].user_id

\* C20: a verify-location, checkin or status request without session user
\* passes authentication only if its Bearer token was issued by a successful
\* auth callback, is still in the token store and expires strictly later than
\* the current time; it then runs as the user the token was issued for, and
\* never once the clock has reached issue time + 30 days.
C20_BearerTokenAuthenticates ==
    [][\A cred \in AuthCredentials :
          cred.session_user = None
              => \/ resp'.op # "none" /\ resp'.status = 401
                 \/ IssuedAndUnexpired(cred)
                 \/ ~CalledWith(cred)]_vars

\* after the first token expired, a checkin of u2, who has no session, was
\* accepted on the token issued to u2
C20_Witness ==
    /\ resp.op = "checkin"
    /\ resp.status = 200
    /\ resp.user = "u2"
    /\ now >= TokenLifetime
    /\ "tok2" \in DOMAIN issued /\ issued["tok2"].user_id = "u2"

\* the step is a successful auth callback: it issued a token and swept the store
SuccessfulCallback == resp'.op = "auth-callback" /\ resp'.user # None

\* C21: the sweep of a successful auth callback removes only tokens whose
\* expiry is strictly before the current time, never one that would still
\* authenticate (the token just issued included), and every token that
\* remains in the store after it still authenticates.
C21_SweepKeepsExactlyLiveTokens ==
    [][SuccessfulCallback
          => /\ \A t \in DOMAIN auth_tokens \ DOMAIN auth_tokens' :
                   auth_tokens[t].expires < now
             /\ resp'.body.auth_token \in DOMAIN auth_tokens'
             /\ \A t \in DOMAIN auth_tokens :
                   auth_tokens[t].expires > now => t \in DOMAIN auth_tokens'
             /\ \A t \in DOMAIN auth_tokens' :
                   auth_tokens'[t].expires > now']_vars

\* the step passed authentication and ran as user
PassedAs(user) ==
    /\ resp'.op # "none" \/ req' # req
    /\ resp'.op # "none" => resp'.status # 401
    /\ ResolvedUser = user

\* C22: logout changes neither the token store nor any other server state,
\* and, whatever logouts have happened, a verify-location, checkin or status
\* request without session user whose Bearer token was issued at a login less
\* than the token lifetime ago passes authentication as the user who logged in.
C22_LogoutKeepsTokens ==
    [][/\ resp'.op = "logout"
             => /\ auth_tokens' = auth_tokens
                /\ users' = users
                /\ checkins' = checkins
       /\ \A cred \in AuthCredentials :
             (/\ cred.session_user = None
              /\ cred.bearer \in DOMAIN issued
              /\ now < issued[cred.bearer].at + TokenLifetime)
                 => \/ PassedAs(issued[cred.bearer].user_id)
                    \/ ~CalledWith(cred)]_vars

\* the user has logged out, and the token issued at the login is still in the
\* store and unexpired
C22_Witness ==
    /\ resp.op = "logout"
    /\ "tok1" \in DOMAIN auth_tokens
    /\ auth_tokens["tok1"].user_id = "u1"
    /\ auth_tokens["tok1"].expires > now

====
